---- MODULE Spec2Model ----
(***************************************************************************)
(* Model of nbrmd/nbrmd.py: the text notebook reader and writer of the     *)
(* .Rmd, .py and .R dialects, and the module-level read/write functions.   *)
(* Python strings are TLA+ strings, lists are sequences, dicts are         *)
(* functions whose DOMAIN is the set of keys present.                      *)
(***************************************************************************)
EXTENDS Integers, Sequences, FiniteSets, TLC

VARIABLES
    pc,               \* position of the running call
    func,             \* the entry point the caller invoked
    ext,              \* the extension (self.ext, or the ext argument)
    nb_file,          \* readf/writef: the file name
    opened,           \* readf/writef: io.open was called
    raised,           \* the exception that left the call, or NoException
    result,           \* the value returned to the caller, or NoResult
    line,             \* markdown_escape: the line to escape
    escaped,          \* the list markdown_escape returned
    unescaped,        \* the line markdown_unescape returned
    text,             \* reader: the text given to reads / to_notebook
    hdr,              \* reader: the metadata the header block of text encodes
    lines,            \* to_notebook / writes: the local list `lines`
    cells,            \* to_notebook / writes: the local list `cells`
    texts,            \* writes: the local list `texts`
    metadata,         \* to_notebook: the local dict `metadata`
    parser_calls,     \* to_notebook: number of text_to_cell calls so far
    body_len,         \* to_notebook: number of lines left after the header
    heap,             \* notebook objects, by reference
    nb,               \* writes: the reference held by the local `nb`
    default_language, \* writes: the local `default_language`
    i,                \* writes: the loop index of `for i, cell in enumerate`
    pos               \* to_notebook: the consumed count last reported

vars == <<pc, func, ext, nb_file, opened, raised, result, line, escaped,
          unescaped, text, hdr, lines, cells, texts, metadata, parser_calls,
          body_len, heap, nb, default_language, i, pos>>

escape_vars == <<line, escaped, unescaped>>
file_vars == <<nb_file, opened>>
reader_vars == <<text, hdr, metadata, parser_calls, body_len, pos>>
writer_vars == <<heap, nb, default_language, texts, i>>

-----------------------------------------------------------------------------
(* Bounds of the model *)

MaxLen == 3       \* longest line given to markdown_escape
MaxLines == 7     \* most lines of a text given to the reader
MaxCells == 2     \* most cells of a notebook given to the writer

-----------------------------------------------------------------------------
(* Python helpers *)

Min(a, b) == IF a < b THEN a ELSE b

\* s[n:] for n >= 0, on a string or a list
Drop(s, n) == SubSeq(s, Min(n, Len(s)) + 1, Len(s))

\* s[n:] for any n: a negative n counts from the end
SliceFrom(s, n) ==
    IF n >= 0 THEN Drop(s, n)
    ELSE IF Len(s) + n > 0 THEN Drop(s, Len(s) + n) ELSE s

\* s[:n] for n >= 0, on a string or a list
Take(s, n) == SubSeq(s, 1, Min(n, Len(s)))

\* s.startswith(p)
StartsWith(s, p) == Len(s) >= Len(p) /\ SubSeq(s, 1, Len(p)) = p

\* d.get(k, default)
Get(d, k, default) == IF k \in DOMAIN d THEN d[k] ELSE default

\* del d[k]
Del(d, k) == [x \in DOMAIN d \ {k} |-> d[x]]

\* d[k] = v
Put(d, k, v) == [x \in DOMAIN d \cup {k} |-> IF x = k THEN v ELSE d[x]]

EmptyDict == [x \in {} |-> ""]

\* sep.join(ls)
RECURSIVE Join(_, _)
Join(sep, ls) ==
    IF Len(ls) = 0 THEN ""
    ELSE IF Len(ls) = 1 THEN ls[1]
    ELSE ls[1] \o sep \o Join(sep, Tail(ls))

\* s.splitlines(), for texts whose only line boundary is "\n"
RECURSIVE SplitFrom(_, _, _)
SplitFrom(s, start, k) ==
    IF k > Len(s) THEN (IF start > Len(s) THEN <<>> ELSE <<SubSeq(s, start, Len(s))>>)
    ELSE IF SubSeq(s, k, k) = "\n"
         THEN <<SubSeq(s, start, k - 1)>> \o SplitFrom(s, k + 1, k + 1)
         ELSE SplitFrom(s, start, k + 1)

SplitLines(s) == SplitFrom(s, 1, 1)

\* the strings of at most n characters of alphabet A
RECURSIVE Strings(_, _)
Strings(A, n) ==
    IF n = 0 THEN {""}
    ELSE LET S == Strings(A, n - 1) IN S \cup {s \o c : s \in S, c \in A}

-----------------------------------------------------------------------------
(* Module constants and format profile *)

NOTEBOOK_EXTENSIONS == {".ipynb", ".Rmd", ".py", ".R"}

TextExtensions == NOTEBOOK_EXTENSIONS \ {".ipynb"}

markdown_comment(e) == IF e = ".Rmd" THEN "" ELSE IF e = ".R" THEN "#'" ELSE "#"

NoException == "NoException"
NoResult == [kind |-> "None"]

-----------------------------------------------------------------------------
(* TextNotebookReader.markdown_unescape, TextNotebookWriter.markdown_escape *)

RECURSIVE LStrip(_)
LStrip(s) == IF StartsWith(s, " ") THEN LStrip(Drop(s, 1)) ELSE s

\* a reader that strips every space after the prefix
markdown_unescape_lstrip(e, l) ==
    IF markdown_comment(e) = "" THEN l
    ELSE LStrip(Drop(l, Len(markdown_comment(e))))

markdown_unescape(e, l) ==
    LET prefix == markdown_comment(e)
        l1 == Drop(l, Len(prefix))
    IN IF prefix = "" THEN l
       ELSE IF StartsWith(l1, " ") THEN Drop(l1, 1) ELSE l1

markdown_escape(e, ls) ==
    LET prefix == markdown_comment(e)
    IN IF prefix = "" THEN ls
       ELSE [k \in 1..Len(ls) |->
                IF ls[k] = "" THEN prefix ELSE prefix \o " " \o ls[k]]

EscapeAlphabet == {"#", "'", " ", "a"}

-----------------------------------------------------------------------------
(* Notebook metadata and the default language *)

Languages == {"R", "python", "julia"}

\* the language_info dicts: empty, without a name, with a name
LanguageInfos ==
    {EmptyDict, [version |-> "3"]} \cup {[name |-> l] : l \in Languages}

Metadatas ==
    LET mains == {EmptyDict} \cup {[main_language |-> l] : l \in Languages}
    IN mains \cup
       {Put(m, "language_info", li) : m \in mains, li \in LanguageInfos}

\* bool(x) of a string; a missing key reads as None, which is falsy
Truthy(d, k) == k \in DOMAIN d /\ d[k] # ""

\* languages.get_default_language: main_language, then language_info.name,
\* then "python"
get_default_language(md) ==
    IF Truthy(md, "main_language") THEN md["main_language"]
    ELSE Get(Get(md, "language_info", EmptyDict), "name", "python")

\* a writer that consults language_info before main_language
writes_default_language_swapped(e, md) ==
    LET fallback == IF e = ".R" THEN "R" ELSE "python"
        li == Get(md, "language_info", EmptyDict)
    IN IF "name" \in DOMAIN li THEN li["name"]
       ELSE Get(md, "main_language", fallback)

\* writes: the default language of the three branches on self.ext
writes_default_language(e, md) ==
    IF e = ".py"
    THEN IF Truthy(md, "main_language") THEN md["main_language"]
         ELSE Get(Get(md, "language_info", EmptyDict), "name", "python")
    ELSE IF e = ".R"
    THEN IF Truthy(md, "main_language") THEN md["main_language"]
         ELSE Get(Get(md, "language_info", EmptyDict), "name", "R")
    ELSE get_default_language(md)

\* writes: the metadata of the working copy after the .R normalisation
writes_metadata(e, md) ==
    IF e = ".R" /\ "main_language" \in DOMAIN md /\ md["main_language"] = "R"
    THEN Del(md, "main_language")
    ELSE md

-----------------------------------------------------------------------------
(* Notebooks on the heap *)

CellTypes == {"code", "markdown"}

CellLists(n) == UNION {[1..k -> [cell_type : CellTypes]] : k \in 0..n}

\* the notebooks given to the writer: any cells under empty metadata, any
\* metadata over at most one cell
Notebooks ==
    {[metadata |-> EmptyDict, cells |-> cs] : cs \in CellLists(MaxCells)}
    \cup {[metadata |-> md, cells |-> cs] : md \in Metadatas, cs \in CellLists(1)}

\* an aliasing writer: nb = nb
deepcopy_alias(h, r) == [heap |-> h, ref |-> r]

\* copy.deepcopy: a fresh object equal to the one referenced
deepcopy(h, r) == [heap |-> Put(h, "copy", h[r]), ref |-> "copy"]

-----------------------------------------------------------------------------
(* External collaborators of the writer: the header codec and CellExporter *)

\* header.encoding_and_executable followed by
\* header.metadata_and_cell_to_header: no line for empty metadata, a fenced
\* block otherwise
header_lines(md) ==
    IF DOMAIN md = {} THEN <<>> ELSE <<"---", "jupyter:", "---">>

\* the line lists CellExporter.cell_to_text may return
ExportedTexts ==
    {<<>>, <<"# -">>, <<"x", "# -">>, <<"# + {}", "x", "# -">>, <<"# +", "x">>}

\* the values of CellExporter.skiplines
SkipLines == {0, 1}

\* CellExporter.is_code
is_code(cell) == cell.cell_type = "code"

Blank(n) == [k \in 1..n |-> ""]

-----------------------------------------------------------------------------
(* TextNotebookWriter.writes *)

\* writes, up to the loop: the private copy, the default language, the .R
\* normalisation, the header lines, the exporters and their texts
TextNotebookWriter_writes ==
    /\ pc = "TextNotebookWriter.writes"
    /\ LET copied == deepcopy(heap, "notebook")
           h == copied.heap
           r == copied.ref
           md == h[r].metadata
           n == Len(h[r].cells)
       IN /\ nb' = r
          /\ default_language' = writes_default_language(ext, md)
          /\ heap' = [h EXCEPT ![r].metadata = writes_metadata(ext, md)]
          /\ lines' = header_lines(writes_metadata(ext, md))
          /\ \E tx \in [1..n -> ExportedTexts], sk \in [1..n -> SkipLines] :
                /\ cells' = [k \in 1..n |->
                                [code |-> is_code(h[r].cells[k]),
                                 skiplines |-> sk[k]]]
                /\ texts' = tx
    /\ i' = 0
    /\ pc' = "for_cells"
    /\ UNCHANGED <<func, ext, raised, result, escape_vars, file_vars, reader_vars>>

\* text[-1] == '# -' of the cell at index k (0-based); the caller has
\* checked that text is not empty
EndsWithMarker(k) == texts[k + 1][Len(texts[k + 1])] = "# -"

\* the test that guards the end marker test: self.ext == '.py' and
\* cell.is_code()
MarkerDialect(k) == ext = ".py" /\ cells[k + 1].code

\* a writer that removes the end marker only before an explicit marker
RemoveMarker_next_only(k) ==
    IF k + 1 >= Len(texts) THEN FALSE
    ELSE StartsWith(texts[k + 2][1], "# + {")

\* i + 1 >= len(texts) or texts[i + 1][0].startswith('# + {')
RemoveMarker(k) ==
    IF k + 1 >= Len(texts) THEN TRUE
    ELSE StartsWith(texts[k + 2][1], "# + {")

\* the indexing of an empty list in the two tests of the loop body
IndexError(k) ==
    IF ~MarkerDialect(k) THEN FALSE
    ELSE IF texts[k + 1] = <<>> THEN TRUE
    ELSE IF ~EndsWithMarker(k) THEN FALSE
    ELSE k + 1 < Len(texts) /\ texts[k + 2] = <<>>

\* a writer that separates every pair of cells in .Rmd
ExtraBlank_any(k) ==
    IF ext = ".Rmd" /\ k + 1 < Len(cells) THEN <<"">> ELSE <<>>

\* two blank lines between markdown cells in Rmd
ExtraBlank(k) ==
    IF ext = ".Rmd" /\ ~cells[k + 1].code
       /\ k + 1 < Len(cells) /\ ~cells[k + 2].code
    THEN <<"">>
    ELSE <<>>

\* one iteration of `for i, cell in enumerate(cells)` that does not raise
for_cells ==
    /\ pc = "for_cells"
    /\ i < Len(cells)
    /\ ~IndexError(i)
    /\ LET txt == texts[i + 1]
           out == IF MarkerDialect(i) /\ EndsWithMarker(i) /\ RemoveMarker(i)
                  THEN SubSeq(txt, 1, Len(txt) - 1)
                  ELSE txt
       IN lines' = lines \o out \o Blank(cells[i + 1].skiplines) \o ExtraBlank(i)
    /\ i' = i + 1
    /\ UNCHANGED <<pc, func, ext, raised, result, cells, texts, heap, nb,
                   default_language, escape_vars, file_vars, reader_vars>>

\* one iteration that indexes an empty list: IndexError leaves writes
for_cells_raise ==
    /\ pc = "for_cells"
    /\ i < Len(cells)
    /\ IndexError(i)
    /\ raised' = "IndexError"
    /\ pc' = "raised"
    /\ UNCHANGED <<func, ext, result, lines, cells, texts, heap, nb,
                   default_language, i, escape_vars, file_vars, reader_vars>>

\* return '\n'.join(lines)
writes_return ==
    /\ pc = "for_cells"
    /\ i = Len(cells)
    /\ result' = [kind |-> "text", value |-> Join("\n", lines)]
    /\ pc' = "done"
    /\ UNCHANGED <<func, ext, raised, lines, cells, texts, heap, nb,
                   default_language, i, escape_vars, file_vars, reader_vars>>

-----------------------------------------------------------------------------
(* TextNotebookReader.to_notebook *)

\* lines[:6]
DiagLines == 6

\* the header codec's answer for the text: the metadata its header block
\* encodes, whether a header cell is returned, and the lines consumed
HeaderAnswers(ls) ==
    [metadata : {hdr}, header_cell : BOOLEAN, pos : 0..Len(ls)]

\* the consumed counts cells.text_to_cell may report on the lines ls
ConsumedCounts(ls) == -1..Len(ls)

\* languages.find_main_language: the metadata it may leave, given metadata md
MainLanguageFound(md) ==
    IF Truthy(md, "main_language") \/ "language_info" \in DOMAIN md
    THEN {md}
    ELSE {md} \cup {Put(md, "main_language", l) : l \in Languages}

\* to_notebook, up to the loop: splitlines, the header, lines = lines[pos:]
to_notebook ==
    /\ pc = "to_notebook"
    /\ \E h \in HeaderAnswers(SplitLines(text)) :
          /\ metadata' = h.metadata
          /\ cells' = IF h.header_cell THEN <<[source |-> Take(SplitLines(text), h.pos)]>>
                      ELSE <<>>
          /\ lines' = IF h.pos > 0 THEN Drop(SplitLines(text), h.pos)
                      ELSE SplitLines(text)
          /\ pos' = h.pos
    /\ body_len' = Len(lines')
    /\ parser_calls' = 0
    /\ pc' = "while_lines"
    /\ UNCHANGED <<func, ext, raised, result, text, hdr, escape_vars, file_vars,
                   writer_vars>>

\* a loop that only rejects a negative count
Blocks_negative(p) == p < 0

\* if pos <= 0
Blocks(p) == p <= 0

\* a diagnostic one line short
BlockedMessage_five(ls) == "Blocked at lines " \o Join("\n", Take(ls, DiagLines - 1))

\* 'Blocked at lines ' + '\n'.join(lines[:6])
BlockedMessage(ls) == "Blocked at lines " \o Join("\n", Take(ls, DiagLines))

\* one iteration of `while lines` that does not raise
while_lines ==
    /\ pc = "while_lines"
    /\ lines # <<>>
    /\ \E p \in ConsumedCounts(lines) :
          /\ ~Blocks(p)
          /\ pos' = p
          /\ cells' = Append(cells, [source |-> Take(lines, p)])
          /\ lines' = SliceFrom(lines, p)
    /\ parser_calls' = parser_calls + 1
    /\ UNCHANGED <<pc, func, ext, raised, result, text, hdr, metadata, body_len,
                   escape_vars, file_vars, writer_vars>>

\* one iteration of `while lines` that raises
while_lines_raise ==
    /\ pc = "while_lines"
    /\ lines # <<>>
    /\ \E p \in ConsumedCounts(lines) :
          /\ Blocks(p)
          /\ pos' = p
          /\ cells' = Append(cells, [source |-> <<>>])
    /\ raised' = BlockedMessage(lines)
    /\ parser_calls' = parser_calls + 1
    /\ pc' = "raised"
    /\ UNCHANGED <<func, ext, result, text, hdr, lines, metadata, body_len,
                   escape_vars, file_vars, writer_vars>>

\* the metadata after the branches on self.ext that follow the loop
ResolvedMetadatas(e, md) ==
    IF e = ".Rmd" THEN MainLanguageFound(md)
    ELSE IF e = ".R"
    THEN IF ~(Truthy(md, "main_language")
              \/ DOMAIN Get(md, "language_info", EmptyDict) # {})
         THEN {Put(md, "main_language", "R")}
         ELSE {md}
    ELSE {md}

\* to_notebook, after the loop: the main language and new_notebook
to_notebook_return ==
    /\ pc = "while_lines"
    /\ lines = <<>>
    /\ \E md \in ResolvedMetadatas(ext, metadata) :
          /\ metadata' = md
          /\ result' = [kind |-> "notebook", cells |-> cells, metadata |-> md]
    /\ pc' = "done"
    /\ UNCHANGED <<func, ext, raised, text, hdr, lines, cells, parser_calls,
                   body_len, pos, escape_vars, file_vars, writer_vars>>

\* reads applied to the text writes returned, the header block carrying the
\* metadata of the written copy
reads_written ==
    /\ func = "roundtrip"
    /\ pc = "done"
    /\ result.kind = "text"
    /\ text' = result.value
    /\ hdr' = heap[nb].metadata
    /\ result' = NoResult
    /\ pc' = "to_notebook"
    /\ UNCHANGED <<func, ext, raised, lines, cells, metadata, parser_calls,
                   body_len, pos, escape_vars, file_vars, writer_vars>>

-----------------------------------------------------------------------------
(* The module-level functions *)

\* the index of the last "." of s, or 0
RECURSIVE LastDot(_, _)
LastDot(s, k) ==
    IF k = 0 THEN 0
    ELSE IF SubSeq(s, k, k) = "." THEN k
    ELSE LastDot(s, k - 1)

\* os.path.splitext(s)[1], for a name without directory separators: the
\* suffix from the last dot, unless only dots precede it
splitext(s) ==
    LET d == LastDot(s, Len(s))
    IN IF d = 0 \/ \A k \in 1..d : SubSeq(s, k, k) = "." THEN ""
       ELSE Drop(s, d - 1)

\* a function that opens the file whatever its suffix
Supported_any(e) == TRUE

\* ext in NOTEBOOK_EXTENSIONS
Supported(e) == e \in NOTEBOOK_EXTENSIONS

\* a table lookup that falls back on the .Rmd profile
Profile_default(e) ==
    IF e \in TextExtensions THEN [found |-> TRUE, ext |-> e]
    ELSE [found |-> TRUE, ext |-> ".Rmd"]

\* _NOTEBOOK_READERS[ext], _NOTEBOOK_WRITERS[ext]: the instance of the
\* extension, or KeyError
Profile(e) ==
    IF e \in TextExtensions THEN [found |-> TRUE, ext |-> e]
    ELSE [found |-> FALSE, ext |-> e]

\* readf and writef: the suffix test, then io.open and the call of read or
\* write
OpenFile(name, target) ==
    /\ pc = name
    /\ IF ~Supported(splitext(nb_file))
       THEN /\ raised' = "TypeError"
            /\ pc' = "raised"
            /\ UNCHANGED <<ext, opened>>
       ELSE /\ opened' = TRUE
            /\ ext' = splitext(nb_file)
            /\ pc' = target
            /\ UNCHANGED raised
    /\ UNCHANGED <<func, nb_file, result, lines, cells, escape_vars,
                   reader_vars, writer_vars>>

readf == OpenFile("readf", "read")

writef == OpenFile("writef", "write")

\* reads, read, writes and write: nbformat for .ipynb, the instance of the
\* extension otherwise
Dispatch(name, target) ==
    /\ pc = name
    /\ IF ext = ".ipynb"
       THEN /\ result' = [kind |-> "nbformat"]
            /\ pc' = "done"
            /\ UNCHANGED <<raised, ext>>
       ELSE IF ~Profile(ext).found
       THEN /\ raised' = "KeyError"
            /\ pc' = "raised"
            /\ UNCHANGED <<result, ext>>
       ELSE /\ ext' = Profile(ext).ext
            /\ pc' = target
            /\ UNCHANGED <<raised, result>>
    /\ UNCHANGED <<func, lines, cells, escape_vars, file_vars, reader_vars,
                   writer_vars>>

reads == Dispatch("reads", "to_notebook")

read == Dispatch("read", "to_notebook")

writes == Dispatch("writes", "TextNotebookWriter.writes")

write == Dispatch("write", "TextNotebookWriter.writes")

-----------------------------------------------------------------------------
(* Escaping one line and reading it back *)

escape_line ==
    /\ pc = "markdown_escape"
    /\ escaped' = markdown_escape(ext, <<line>>)
    /\ pc' = "markdown_unescape"
    /\ UNCHANGED <<func, ext, raised, result, line, unescaped, lines, cells,
                   file_vars, reader_vars, writer_vars>>

unescape_line ==
    /\ pc = "markdown_unescape"
    /\ unescaped' = markdown_unescape(ext, escaped[1])
    /\ pc' = "done"
    /\ UNCHANGED <<func, ext, raised, result, line, escaped, lines, cells,
                   file_vars, reader_vars, writer_vars>>

-----------------------------------------------------------------------------
(* Initial states: one call of one entry point *)

\* line k of the texts given to the reader
RECURSIVE DocLine(_)
DocLine(k) == IF k = 0 THEN "" ELSE "x" \o DocLine(k - 1)

\* the text of n lines
Doc(n) == Join("\n", [k \in 1..n |-> DocLine(k)])

FileNames ==
    {"nb.ipynb", "nb.Rmd", "nb.py", "nb.R", "notes.txt", "nb", ".py", "nb.PY"}

ExtArguments == NOTEBOOK_EXTENSIONS \cup {".txt", ".PY", ""}

Idle ==
    /\ raised = NoException
    /\ result = NoResult
    /\ opened = FALSE
    /\ escaped = <<>>
    /\ unescaped = ""
    /\ lines = <<>>
    /\ cells = <<>>
    /\ texts = <<>>
    /\ metadata = EmptyDict
    /\ parser_calls = 0
    /\ body_len = 0
    /\ pos = 0
    /\ nb = "notebook"
    /\ default_language = ""
    /\ i = 0

SmallNotebook == [metadata |-> EmptyDict, cells |-> <<[cell_type |-> "code"]>>]

InitEscape ==
    /\ func = "markdown_escape"
    /\ pc = "markdown_escape"
    /\ ext \in TextExtensions
    /\ line \in Strings(EscapeAlphabet, MaxLen)
    /\ nb_file = ""
    /\ text = ""
    /\ hdr = EmptyDict
    /\ heap = [r \in {"notebook"} |-> SmallNotebook]

InitFile ==
    /\ func \in {"readf", "writef"}
    /\ pc = func
    /\ nb_file \in FileNames
    /\ ext = ""
    /\ line = ""
    /\ text = Doc(2)
    /\ hdr = EmptyDict
    /\ heap = [r \in {"notebook"} |-> SmallNotebook]

InitExt ==
    /\ func \in {"reads", "read", "writes", "write"}
    /\ pc = func
    /\ ext \in ExtArguments
    /\ nb_file = ""
    /\ line = ""
    /\ text = Doc(2)
    /\ hdr = EmptyDict
    /\ heap = [r \in {"notebook"} |-> SmallNotebook]

InitReader ==
    /\ func = "to_notebook"
    /\ pc = "to_notebook"
    /\ ext \in TextExtensions
    /\ \/ \E n \in 0..MaxLines : text = Doc(n) /\ hdr = EmptyDict
       \/ \E n \in 0..2 : text = Doc(n) /\ hdr \in Metadatas
    /\ nb_file = ""
    /\ line = ""
    /\ heap = [r \in {"notebook"} |-> SmallNotebook]

InitWriter ==
    /\ func = "TextNotebookWriter.writes"
    /\ pc = "TextNotebookWriter.writes"
    /\ ext \in TextExtensions
    /\ \E n \in Notebooks : heap = [r \in {"notebook"} |-> n]
    /\ nb_file = ""
    /\ line = ""
    /\ text = ""
    /\ hdr = EmptyDict

InitRoundTrip ==
    /\ func = "roundtrip"
    /\ pc = "TextNotebookWriter.writes"
    /\ ext \in TextExtensions
    /\ \E md \in Metadatas, cs \in CellLists(1) :
          heap = [r \in {"notebook"} |-> [metadata |-> md, cells |-> cs]]
    /\ nb_file = ""
    /\ line = ""
    /\ text = ""
    /\ hdr = EmptyDict

Init ==
    /\ Idle
    /\ \/ InitEscape
       \/ InitFile
       \/ InitExt
       \/ InitReader
       \/ InitWriter
       \/ InitRoundTrip

Next ==
    \/ escape_line
    \/ unescape_line
    \/ readf
    \/ writef
    \/ reads
    \/ read
    \/ writes
    \/ write
    \/ to_notebook
    \/ while_lines
    \/ while_lines_raise
    \/ to_notebook_return
    \/ TextNotebookWriter_writes
    \/ for_cells
    \/ for_cells_raise
    \/ writes_return
    \/ reads_written

Spec == Init /\ [][Next]_vars

-----------------------------------------------------------------------------
(* Properties *)

\* C1: in the script dialects (.py, .R), un-escaping the single line that
\* escaping produces from a line not starting with the comment prefix
\* (the empty line and lines beginning with spaces included) returns that
\* line exactly; in .Rmd both operations are the identity.
EscapingInverse ==
    (func = "markdown_escape" /\ pc = "done") =>
        /\ (ext # ".Rmd" /\ ~StartsWith(line, markdown_comment(ext))) =>
              (Len(escaped) = 1 /\ unescaped = line)
        /\ ext = ".Rmd" => (escaped = <<line>> /\ unescaped = line)

EscapingInverseWitness ==
    /\ func = "markdown_escape" /\ pc = "done" /\ ext = ".py"
    /\ line = " a" /\ escaped = <<"#  a">> /\ unescaped = " a"

\* the default language the precedence rule names: main_language, then
\* language_info.name, then the fallback of the dialect
PrecedenceHolds(e, md, lang) ==
    LET li == Get(md, "language_info", EmptyDict)
    IN IF "main_language" \in DOMAIN md THEN lang = md["main_language"]
       ELSE IF "name" \in DOMAIN li THEN lang = li["name"]
       ELSE IF e = ".py" THEN lang = "python"
       ELSE IF e = ".R" THEN lang = "R"
       ELSE TRUE

\* C2: once writes has resolved the default language, it is main_language
\* when set, otherwise language_info.name when set, otherwise the fallback
\* of the dialect ("python" for .py, "R" for .R).
LanguagePrecedence ==
    (func \in {"TextNotebookWriter.writes", "roundtrip"}
     /\ pc # "TextNotebookWriter.writes") =>
        PrecedenceHolds(ext, heap["notebook"].metadata, default_language)

LanguagePrecedenceWitness ==
    /\ func = "TextNotebookWriter.writes" /\ pc = "for_cells" /\ ext = ".py"
    /\ heap["notebook"].metadata =
          [main_language |-> "R", language_info |-> [name |-> "python"]]
    /\ default_language = "R"

\* C3: no step of writes changes the notebook the caller passed in, and the
\* object writes edits is never the caller's.
CallerNotebookUnchanged ==
    [][/\ heap'["notebook"] = heap["notebook"]
       /\ (pc = "TextNotebookWriter.writes" => nb' # "notebook")]_vars

CallerNotebookUnchangedWitness ==
    /\ func = "TextNotebookWriter.writes" /\ pc = "done" /\ ext = ".R"
    /\ nb = "copy"
    /\ heap["notebook"].metadata = [main_language |-> "R"]
    /\ heap["copy"].metadata = EmptyDict

\* C4: a call with an extension outside NOTEBOOK_EXTENSIONS leaves by an
\* exception in its first step: readf and writef before the file is
\* opened, reads, read, writes and write before any line is parsed or
\* rendered; no profile is substituted.
UnsupportedExtensionRaises ==
    [][/\ (pc = func /\ func \in {"readf", "writef"}
           /\ splitext(nb_file) \notin NOTEBOOK_EXTENSIONS) =>
              (pc' = "raised" /\ raised' = "TypeError" /\ ~opened')
       /\ (pc = func /\ func \in {"reads", "read", "writes", "write"}
           /\ ext \notin NOTEBOOK_EXTENSIONS) =>
              (/\ pc' = "raised" /\ raised' = "KeyError"
               /\ result' = NoResult /\ lines' = <<>> /\ cells' = <<>>
               /\ parser_calls' = 0)]_vars

UnsupportedExtensionRaisesWitness ==
    /\ func = "readf" /\ nb_file = "notes.txt" /\ pc = "raised"
    /\ raised = "TypeError" /\ ~opened /\ result = NoResult

\* C5: the parser is never called on an empty buffer; an iteration that
\* does not raise drops exactly the reported count, at least one line;
\* the calls never outnumber the lines left after the header, and the loop
\* can always take a step until the buffer is empty or the error is raised.
ReaderLoopProgress ==
    /\ [](/\ (pc = "while_lines" => parser_calls + Len(lines) <= body_len)
          /\ (pc = "while_lines" =>
                ENABLED (while_lines \/ while_lines_raise \/ to_notebook_return))
          /\ parser_calls <= body_len
          /\ (pc = "done" /\ result.kind = "notebook" => lines = <<>>))
    /\ [][parser_calls' # parser_calls =>
             /\ lines # <<>>
             /\ parser_calls' = parser_calls + 1
             /\ (pc' # "raised" =>
                   /\ pos' >= 1
                   /\ lines' = Drop(lines, pos')
                   /\ Len(lines') = Len(lines) - pos')]_vars

ReaderLoopProgressWitness ==
    /\ func = "to_notebook" /\ pc = "done" /\ result.kind = "notebook"
    /\ body_len >= 3 /\ parser_calls = body_len

\* C6: when the parser has reported a count of zero or less, to_notebook
\* has raised, the message holds the first six lines of the unconsumed
\* remainder (all of them when fewer), and nothing is returned.
BlockedDiagnostic ==
    (parser_calls > 0 /\ pos <= 0) =>
        /\ pc = "raised"
        /\ raised = "Blocked at lines " \o Join("\n", Take(lines, 6))
        /\ result = NoResult

BlockedDiagnosticWitness ==
    /\ func = "to_notebook" /\ pc = "raised" /\ pos = 0
    /\ Len(lines) = 7
    /\ raised = "Blocked at lines x\nxx\nxxx\nxxxx\nxxxxx\nxxxxxx"

\* the lines one iteration of the writer's loop appends
Appended == SubSeq(lines', Len(lines) + 1, Len(lines'))

Front(s) == SubSeq(s, 1, Len(s) - 1)

\* the cell of the iteration is a code cell of the .py dialect whose text
\* ends with the end marker
MarkedCell ==
    /\ ext = ".py" /\ cells[i + 1].code
    /\ texts[i + 1] # <<>> /\ texts[i + 1][Len(texts[i + 1])] = "# -"

NextOpensExplicitly ==
    IF i + 1 >= Len(texts) THEN FALSE
    ELSE IF texts[i + 2] = <<>> THEN FALSE
    ELSE StartsWith(texts[i + 2][1], "# + {")

\* what an iteration appends when the marker is removed iff `removed`
MarkerRule(removed) ==
    (pc = "for_cells" /\ i' = i + 1) =>
        IF ext = ".py"
        THEN Appended = (IF MarkedCell /\ removed THEN Front(texts[i + 1])
                         ELSE texts[i + 1]) \o Blank(cells[i + 1].skiplines)
        ELSE Take(Appended, Len(texts[i + 1])) = texts[i + 1]

ResolvedR(md) ==
    IF "main_language" \in DOMAIN md THEN md["main_language"]
    ELSE Get(Get(md, "language_info", EmptyDict), "name", "R")

\* C9: a notebook with main_language = "R", written with the .R writer and
\* read back, has the default language of the original.
MainLanguageRoundTrip ==
    (/\ func = "roundtrip" /\ ext = ".R" /\ pc = "done"
     /\ result.kind = "notebook"
     /\ Get(heap["notebook"].metadata, "main_language", "") = "R") =>
        ResolvedR(result.metadata) = ResolvedR(heap["notebook"].metadata)

\* C10: the .py writer never raises IndexError, whatever line lists the
\* exporter returns.
WritesNeverIndexesEmpty ==
    (func \in {"TextNotebookWriter.writes", "roundtrip"} /\ ext = ".py") =>
        raised # "IndexError"

====
